---- MODULE Spec2Model ----
(***************************************************************************)
(* Cashflow-horizon normalisation (backend/main.py,                        *)
(* enforce_cashflow_horizon), with the parts of the backend around it:     *)
(*   Spec       one call of enforce_cashflow_horizon                       *)
(*   SpecChat   a chat request from the agent's text to the response       *)
(*   SpecCalls  several calls of enforce_cashflow_horizon interleaved      *)
(*   SpecVoice  one VoiceSessionManager and its ordered sender task        *)
(*   SpecStore  LocalStorage, conversations and scenarios                  *)
(*   SpecOrder  one call of enforce_cashflow_horizon, every list order     *)
(*   SpecRoute  the WebSocket handler of one voice connection              *)
(*                                                                         *)
(* Numbers.  A Python float is modelled as an exact fraction n/d of a      *)
(* unit that is 1/UnitsPerCent of a cent, so that values finer than a cent *)
(* exist and linear interpolation is exact.  The non-finite floats are     *)
(* Inf and NaN (json.loads accepts Infinity, NaN and 1e999; float accepts  *)
(* "inf" and "nan").  round(x, 2) goes to the nearest cent; an exact half  *)
(* cent is a value a binary double holds only approximately, so the        *)
(* direction of such a tie is an input of the call (half_up).              *)
(***************************************************************************)
EXTENDS Integers, Sequences, FiniteSets, TLC

\* ---------------------------------------------------------------- bounds
MaxLen == 3
UnitsPerCent == 10
\* calls of enforce_cashflow_horizon in progress at the same time
NumCalls == 2
\* records the storage holds in all its files together
MaxRecords == 3
\* messages the Azure callbacks of one voice session produce
MaxMessages == 4
\* client messages received on one voice WebSocket connection
MaxClientMessages == 4

\* ------------------------------------------------------ program constants
EXPECTED_CASHFLOW_YEARS == <<0, 5, 10, 15, 20, 25>>
FirstYear == 0
LastYear == 25

\* units in 1.0 (one dollar, one year): round(x, 2) keeps hundredths
Whole == 100 * UnitsPerCent

\* ------------------------------------------------------------- fractions
Rat(n, d) == [n |-> n, d |-> d]
Zero == Rat(0, 1)
Units(n) == Rat(n, 1)

\* float("inf") and float("nan"); a finite value has d >= 1
Inf == Rat(1, 0)
NaN == Rat(0, 0)
Finite(v) == v.d # 0

\* the result value inf, above every finite amount
Infinity == 2 ^ 30

Max0Identity(v) == v

\* max(0.0, v): v when v > 0.0 holds, so nan gives 0.0
Max0(v) == IF v.n > 0 THEN v ELSE Zero

LerpFromEnd(a, b, p, q) ==
    IF Finite(a) /\ Finite(b)
    THEN Rat(b.n * a.d * q + (b.n * a.d - a.n * b.d) * p, a.d * b.d * q)
    ELSE IF Finite(a) /\ b = Inf THEN Inf
    ELSE NaN

\* a + (b - a) * (p / q) with 0 < p < q; inf - inf and inf + -inf are nan
Lerp(a, b, p, q) ==
    IF Finite(a) /\ Finite(b)
    THEN Rat(a.n * b.d * q + (b.n * a.d - a.n * b.d) * p, a.d * b.d * q)
    ELSE IF Finite(a) /\ b = Inf THEN Inf
    ELSE NaN

\* v <= 0
NonPositive(v) == v.n <= 0

Round2SignSlip(v, up) ==
    LET c == v.d * UnitsPerCent
        q == v.n \div c
        r == v.n % c
    IN  IF ~Finite(v) THEN Infinity
        ELSE IF 2 * r < c \/ (2 * r = c /\ ~up) THEN (q - 1) * UnitsPerCent
        ELSE q * UnitsPerCent

\* round(v, 2), in units; up decides an exact half cent
Round2(v, up) ==
    LET c == v.d * UnitsPerCent
        q == v.n \div c
        r == v.n % c
    IN  IF ~Finite(v) THEN Infinity
        ELSE IF 2 * r > c \/ (2 * r = c /\ up) THEN (q + 1) * UnitsPerCent
        ELSE q * UnitsPerCent

\* ------------------------------------------------- untrusted JSON values
\* A field value: a number (n units), a numeric string, a value no numeric
\* conversion accepts (other string, list, object), None (null, or the
\* key is missing and dict.get returns None), or a non-finite number
\* (Infinity, 1e999, "inf"; NaN, "nan").
Num(n) == [tag |-> "num", n |-> n]
Str(n) == [tag |-> "str", n |-> n]
PosInf == [tag |-> "inf", n |-> 0]
NotANumber == [tag |-> "nan", n |-> 0]
Bad == [tag |-> "bad", n |-> 0]
Null == [tag |-> "null", n |-> 0]

Failed == [ok |-> FALSE, x |-> 0]
Ok(x) == [ok |-> TRUE, x |-> x]

\* int(x): a number is truncated toward zero, a string must spell an
\* integer; inf, nan and the other values raise
IntOf(x) ==
    CASE x.tag = "num" ->
            Ok(IF x.n >= 0 THEN x.n \div Whole ELSE -((-x.n) \div Whole))
      [] x.tag = "str" -> IF x.n % Whole = 0 THEN Ok(x.n \div Whole) ELSE Failed
      [] OTHER -> Failed

FloatOfOrZero(x) ==
    CASE x.tag \in {"num", "str"} -> Ok(Units(x.n))
      [] x.tag = "inf" -> Ok(Inf)
      [] x.tag = "nan" -> Ok(NaN)
      [] OTHER -> Ok(Zero)

FloatOfWhole(x) ==
    CASE x.tag \in {"num", "str"} ->
            Ok(Units((IF x.n >= 0 THEN x.n \div Whole ELSE -((-x.n) \div Whole)) * Whole))
      [] x.tag = "inf" -> Ok(Inf)
      [] x.tag = "nan" -> Ok(NaN)
      [] OTHER -> Failed

\* float(x)
FloatOf(x) ==
    CASE x.tag \in {"num", "str"} -> Ok(Units(x.n))
      [] x.tag = "inf" -> Ok(Inf)
      [] x.tag = "nan" -> Ok(NaN)
      [] OTHER -> Failed

\* an element of the list: a dict, or anything without .get
Record(y, v) == [rec |-> TRUE, year |-> y, end_assets |-> v]
NotARecord == [rec |-> FALSE, year |-> Null, end_assets |-> Null]

\* the argument: a list of elements, or a value of another type
ListOf(items) == [kind |-> "list", items |-> items]
NotAList(k) == [kind |-> k, items |-> <<>>]

\* isinstance(cashflows, list)
IsList(c) == c.kind = "list"

\* ------------------------------------------------------------ dictionaries
EmptyMap == [k \in {} |-> Zero]
Put(m, k, v) == (k :> v) @@ m
Get(m, k, default) == IF k \in DOMAIN m THEN m[k] ELSE default
MinOf(S) == CHOOSE x \in S : \A z \in S : x <= z
\* the largest element, found as the smallest of the negated elements
MaxOf(S) == -MinOf({-x : x \in S})

\* ---------------------------------------------------------------- stages
InRangeNoUpper(y) == FirstYear <= y

InRangeNoLower(y) == y <= LastYear

\* 0 <= y <= 25
InRange(y) == FirstYear <= y /\ y <= LastYear

\* the loop that collects raw_points
RECURSIVE SanitizePoints(_)
SanitizePoints(items) ==
    IF items = <<>> THEN <<>>
    ELSE LET pt == Head(items)
             rest == SanitizePoints(Tail(items))
         IN  IF ~pt.rec THEN rest
             ELSE LET y == IntOf(pt.year)
                      v == FloatOf(pt.end_assets)
                  IN  IF ~y.ok \/ ~v.ok THEN rest
                      ELSE IF InRange(y.x)
                           THEN <<<<y.x, Max0(v.x)>>>> \o rest
                           ELSE rest

RECURSIVE DedupeKeepFirst(_, _)
DedupeKeepFirst(m, raw) ==
    IF raw = <<>> THEN m
    ELSE DedupeKeepFirst(IF Head(raw)[1] \in DOMAIN m THEN m
                         ELSE Put(m, Head(raw)[1], Head(raw)[2]), Tail(raw))

\* deduplicate by year keeping last
RECURSIVE DedupeInto(_, _)
DedupeInto(m, raw) ==
    IF raw = <<>> THEN m
    ELSE DedupeInto(Put(m, Head(raw)[1], Head(raw)[2]), Tail(raw))

DedupeByYear(raw) == DedupeInto(EmptyMap, raw)

AnchorFirstSeen(m, raw) ==
    IF FirstYear \notin DOMAIN m /\ raw # <<>>
    THEN Put(m, FirstYear, Head(raw)[2])
    ELSE m

\* year 0 anchor using the earliest value
AnchorYear0(m, raw) ==
    IF FirstYear \notin DOMAIN m /\ raw # <<>>
    THEN Put(m, FirstYear, m[MinOf(DOMAIN m)])
    ELSE m

\* sorted(point_map.keys())
RECURSIVE SortedYears(_)
SortedYears(S) ==
    IF S = {} THEN <<>> ELSE <<MinOf(S)>> \o SortedYears(S \ {MinOf(S)})

InterpRounded(prev_v, cur_v, step, span) ==
    Max0(Units(Round2(Lerp(prev_v, cur_v, step, span), FALSE)))

InterpForwardFill(prev_v, cur_v, step, span) == Max0(prev_v)

\* one interpolated annual value
Interp(prev_v, cur_v, step, span) == Max0(Lerp(prev_v, cur_v, step, span))

\* the loop over years_sorted that builds annual
RECURSIVE InterpolateFrom(_, _, _, _)
InterpolateFrom(annual0, m, ys, idx) ==
    IF idx > Len(ys) THEN annual0
    ELSE LET y == ys[idx]
             a1 == Put(annual0, y, m[y])
         IN  IF idx = 1 THEN InterpolateFrom(a1, m, ys, idx + 1)
             ELSE LET prev_y == ys[idx - 1]
                      span == y - prev_y
                      a2 == [k \in DOMAIN a1 \cup ((prev_y + 1) .. (y - 1)) |->
                               IF prev_y < k /\ k < y
                               THEN Interp(m[prev_y], m[y], k - prev_y, span)
                               ELSE a1[k]]
                  IN  InterpolateFrom(a2, m, ys, idx + 1)

InterpolateAnnual(m) == InterpolateFrom(EmptyMap, m, SortedYears(DOMAIN m), 1)

FillValueDefault(annual0, y) == Get(annual0, y, Zero)

\* the value of a year that annual does not hold yet
FillValue(annual0, y) ==
    LET prevs == {k \in DOMAIN annual0 : k < y}
        nexts == {k \in DOMAIN annual0 : k > y}
    IN  IF prevs # {} /\ nexts # {}
        THEN Lerp(annual0[MaxOf(prevs)], annual0[MinOf(nexts)],
                  y - MaxOf(prevs), MinOf(nexts) - MaxOf(prevs))
        ELSE LET key == IF prevs # {} /\ MaxOf(prevs) # 0 THEN MaxOf(prevs)
                        ELSE IF nexts # {} /\ MinOf(nexts) # 0 THEN MinOf(nexts)
                        ELSE 0
             IN  Get(annual0, key, Zero)

ClampedNoCarry(v, depleted) == IF ~depleted /\ NonPositive(v) THEN Zero ELSE v

\* the depletion branch of the scan: the value the year is left with
Clamped(v, depleted) ==
    IF ~depleted /\ NonPositive(v) THEN Zero
    ELSE IF depleted THEN Zero
    ELSE v

\* the scan of the years 0..25
RECURSIVE DepletionScan(_, _, _)
DepletionScan(annual0, depleted, y) ==
    IF y > LastYear THEN annual0
    ELSE LET val == IF y \in DOMAIN annual0 THEN annual0[y]
                    ELSE Max0(FillValue(annual0, y))
         IN  DepletionScan(Put(annual0, y, Clamped(val, depleted)),
                           depleted \/ NonPositive(val), y + 1)

DepletionClampAll(annual0) ==
    DepletionScan(annual0, \E y \in DOMAIN annual0 : NonPositive(annual0[y]), FirstYear)

DepletionClamp(annual0) == DepletionScan(annual0, FALSE, FirstYear)

\* the six checkpoints, rounded
SampleCheckpoints(a, up) ==
    [i \in 1 .. Len(EXPECTED_CASHFLOW_YEARS) |->
        [year |-> EXPECTED_CASHFLOW_YEARS[i],
         end_assets |-> Round2(Get(a, EXPECTED_CASHFLOW_YEARS[i], Zero), up)]]

FallbackEmpty == <<>>

\* the all-zero series of the two early returns
Fallback ==
    [i \in 1 .. Len(EXPECTED_CASHFLOW_YEARS) |->
        [year |-> EXPECTED_CASHFLOW_YEARS[i], end_assets |-> 0]]

\* point_map as the interpolation sees it
PointsOf(c) ==
    LET raw == SanitizePoints(c.items) IN AnchorYear0(DedupeByYear(raw), raw)

\* the function as a whole
Normalize(c, up) ==
    IF ~IsList(c) THEN Fallback
    ELSE IF DOMAIN PointsOf(c) = {} THEN Fallback
    ELSE SampleCheckpoints(DepletionClamp(InterpolateAnnual(PointsOf(c))), up)

\* ------------------------------------------------------------------ inputs
Dollars(k) == k * Whole
Cents(k) == k * UnitsPerCent
SubCent == (UnitsPerCent \div 2) - 1
HalfCent == UnitsPerCent \div 2

\* well-formed records on and off the grid, a negative value, a value below
\* half a cent, records out of range and elements that fail a conversion
ElementsA ==
    {Record(Num(Dollars(0)), Num(Dollars(100))),
     Record(Num(Dollars(0)), Num(SubCent)),
     Record(Num(Dollars(3)), Num(0)),
     Record(Str(Dollars(3)), Str(Dollars(300))),
     Record(Num(Dollars(10)), Num(Dollars(100))),
     Record(Num(Dollars(10)), Num(Dollars(300))),
     Record(Num(Dollars(10)), Num(-Dollars(100))),
     Record(Num(Dollars(26)), Num(Dollars(300))),
     Record(Num(Dollars(-1)), Num(Dollars(300))),
     NotARecord,
     Record(Bad, Num(Dollars(300))),
     Record(Num(Dollars(10)), Null)}

\* an exact half cent, a string that int() rejects, years that int() truncates
ElementsB ==
    {Record(Num(Dollars(0)), Num(HalfCent)),
     Record(Str(Dollars(3) + Cents(50)), Num(Dollars(300))),
     Record(Num(Dollars(3) + Cents(90)), Num(Dollars(300))),
     Record(Num(-Cents(50)), Num(Dollars(300)))}

\* records with a non-finite end_assets next to finite ones
ElementsC ==
    {Record(Num(Dollars(5)), PosInf),
     Record(Num(Dollars(0)), PosInf),
     Record(Str(Dollars(10)), PosInf),
     Record(Num(Dollars(10)), NotANumber),
     Record(Num(Dollars(0)), Num(Dollars(100))),
     Record(Num(Dollars(10)), Num(Dollars(300)))}

NonFiniteInputs == {<<e>> : e \in ElementsC} \cup {<<e, f>> : e, f \in ElementsC}

MixedInputs ==
    {<<e>> : e \in ElementsB}
    \cup {<<e, f>> : e \in ElementsB, f \in ElementsA}
    \cup {<<f, e>> : e \in ElementsB, f \in ElementsA}

RECURSIVE SeqsUpTo(_, _)
SeqsUpTo(S, n) ==
    IF n = 0 THEN {<<>>}
    ELSE LET shorter == SeqsUpTo(S, n - 1)
         IN  shorter \cup {Append(s, e) : s \in {t \in shorter : Len(t) = n - 1}, e \in S}

Series(vals) ==
    [i \in 1 .. Len(vals) |->
        Record(Num(Dollars(EXPECTED_CASHFLOW_YEARS[i])), Num(vals[i]))]

CanonValues == {Dollars(100), Dollars(140) + Cents(55), Dollars(210)}
CanonicalInputs ==
    {Series(vals) : vals \in [1 .. Len(EXPECTED_CASHFLOW_YEARS) -> CanonValues]}

\* the series of test_cashflow_enforcement
GrowthExample ==
    Series(<<Dollars(100000), Dollars(140000), Dollars(160000),
             Dollars(170000), Dollars(190000), Dollars(210000)>>)

\* the list of test_enforce_basic
BasicExample ==
    << Record(Num(Dollars(0)), Num(Dollars(100000))),
       Record(Num(Dollars(7)), Num(Dollars(150000))),
       Record(Num(Dollars(5)), Num(Dollars(140000))),
       Record(Num(Dollars(10)), Num(Dollars(160000))),
       Record(Num(Dollars(30)), Num(Dollars(500000))),
       Record(Num(Dollars(15)), Num(Dollars(170000))),
       Record(Num(Dollars(20)), Num(Dollars(190000))),
       Record(Num(Dollars(25)), Num(Dollars(210000))) >>

\* the list of test_missing_years_and_depletion
GapExample ==
    << Record(Num(Dollars(0)), Num(Dollars(50000))),
       Record(Num(Dollars(5)), Num(Dollars(20000))),
       Record(Num(Dollars(20)), Num(0)) >>

\* records of four years in range, one out of range, one element that is
\* no record, a depleted year and a non-finite value
ElementsP ==
    {Record(Num(Dollars(0)), Num(Dollars(100))),
     Record(Num(Dollars(3)), Num(0)),
     Record(Str(Dollars(3)), Str(Dollars(300))),
     Record(Num(Dollars(10)), Num(Dollars(300))),
     Record(Num(Dollars(10)), Num(-Dollars(100))),
     Record(Num(Dollars(20)), Num(Dollars(140) + Cents(55))),
     Record(Num(Dollars(26)), Num(Dollars(300))),
     NotARecord,
     Record(Num(Dollars(5)), PosInf)}

\* the lists whose every order is tried
OrderInputs ==
    {ListOf(s) : s \in SeqsUpTo(ElementsP, MaxLen)}
    \cup {ListOf(SubSeq(BasicExample, 1, 5)), ListOf(GapExample), NotAList("null")}

Inputs ==
    {ListOf(s) : s \in SeqsUpTo(ElementsA, MaxLen)}
    \cup {ListOf(s) : s \in MixedInputs}
    \cup {ListOf(s) : s \in NonFiniteInputs}
    \cup {ListOf(s) : s \in CanonicalInputs}
    \cup {ListOf(GrowthExample), ListOf(BasicExample), ListOf(GapExample)}
    \cup {NotAList(k) : k \in {"null", "str", "num", "obj"}}

\* ------------------------------------------------------------------- state
\* one call of enforce_cashflow_horizon
VARIABLES cashflows, pc, raw_points, point_map, annual, clamped, ordered, half_up

normVars == <<cashflows, pc, raw_points, point_map, annual, clamped, ordered, half_up>>

\* one chat request (chat_stream, chat_endpoint) from the agent's complete
\* response text to the response sent
VARIABLES response_text, chat_pc, analysis_dict, analysis_data, sent, warned

chatVars == <<response_text, chat_pc, analysis_dict, analysis_data, sent, warned>>

\* several calls of enforce_cashflow_horizon in progress at once: the
\* argument, the position, the locals (one frame per call) and the result
VARIABLES call_in, call_pc, frames, result, call_up

callVars == <<call_in, call_pc, frames, result, call_up>>

\* one VoiceSessionManager: self.status, self._send_queue, the state of
\* self._sender_task and the message it is sending; enqueued and handed
\* record the order of the put_nowait calls and of the sender's
\* send_message calls; direct is the message of a send_message call made
\* outside the sender task (end_turn, the route handler) that has not
\* returned yet; wire is the order in which send_message was entered
VARIABLES session, status, send_queue, sender_task, sending, enqueued, handed, wire,
          direct

voiceVars == <<session, status, send_queue, sender_task, sending, enqueued, handed, wire,
               direct>>

\* LocalStorage: the JSON files, the value the last call returned, the
\* record last saved under each id, and the file the last call wrote
VARIABLES files, ret, saved, wrote

storeVars == <<files, ret, saved, wrote>>

\* voice_session_websocket for one connection: where the handler is, its
\* local session_manager, every VoiceSessionManager it created,
\* active_sessions[session_id], the client messages received and the
\* messages the handler sent itself
VARIABLES handler, session_manager, managers, active_sessions, received, replies

routeVars == <<handler, session_manager, managers, active_sessions, received, replies>>

vars == <<normVars, chatVars, callVars, voiceVars, storeVars, routeVars>>

notNorm == <<chatVars, callVars, voiceVars, storeVars, routeVars>>
notChat == <<normVars, callVars, voiceVars, storeVars, routeVars>>
notCall == <<normVars, chatVars, voiceVars, storeVars, routeVars>>
notVoice == <<normVars, chatVars, callVars, storeVars, routeVars>>
notStore == <<normVars, chatVars, callVars, voiceVars, routeVars>>
notRoute == <<normVars, chatVars, callVars, voiceVars, storeVars>>

\* no call of enforce_cashflow_horizon in progress
NormIdle ==
    /\ cashflows = ListOf(<<>>)
    /\ pc = "idle"
    /\ raw_points = <<>>
    /\ point_map = EmptyMap
    /\ annual = EmptyMap
    /\ clamped = EmptyMap
    /\ ordered = <<>>
    /\ half_up = FALSE

\* no chat request in progress
ChatIdle ==
    /\ response_text = [endpoint |-> "none", braces |-> FALSE, decodes |-> FALSE, value |-> 0]
    /\ chat_pc = "idle"
    /\ analysis_dict = 0
    /\ analysis_data = 0
    /\ sent = <<>>
    /\ warned = FALSE

\* no concurrent calls
CallsIdle ==
    /\ call_in = <<>>
    /\ call_pc = <<>>
    /\ frames = <<>>
    /\ result = <<>>
    /\ call_up = <<>>

\* no voice session
VoiceIdle ==
    /\ session = "none"
    /\ status = "idle"
    /\ send_queue = <<>>
    /\ sender_task = "none"
    /\ sending = 0
    /\ enqueued = <<>>
    /\ handed = <<>>
    /\ wire = <<>>
    /\ direct = 0

\* no voice connection
RouteIdle ==
    /\ handler = "none"
    /\ session_manager = 0
    /\ managers = <<>>
    /\ active_sessions = 0
    /\ received = 0
    /\ replies = <<>>

\* no storage in use
StoreIdle ==
    /\ files = <<>>
    /\ ret = 0
    /\ saved = <<>>
    /\ wrote = 0

Init ==
    /\ ChatIdle
    /\ CallsIdle
    /\ VoiceIdle
    /\ StoreIdle
    /\ RouteIdle
    /\ cashflows \in Inputs
    /\ pc = "call"
    /\ raw_points = <<>>
    /\ point_map = EmptyMap
    /\ annual = EmptyMap
    /\ clamped = EmptyMap
    /\ ordered = <<>>
    /\ half_up = FALSE

\* the argument is not a list: the first early return
ReturnNotList ==
    /\ pc = "call"
    /\ ~IsList(cashflows)
    /\ ordered' = Fallback
    /\ pc' = "done"
    /\ UNCHANGED <<cashflows, raw_points, point_map, annual, clamped, half_up>>
    /\ UNCHANGED notNorm

\* no valid point: the second early return
ReturnNoPoints ==
    /\ pc = "call"
    /\ IsList(cashflows)
    /\ raw_points' = SanitizePoints(cashflows.items)
    /\ point_map' = AnchorYear0(DedupeByYear(raw_points'), raw_points')
    /\ DOMAIN point_map' = {}
    /\ ordered' = Fallback
    /\ pc' = "done"
    /\ UNCHANGED <<cashflows, annual, clamped, half_up>>
    /\ UNCHANGED notNorm

RECURSIVE ClampedInPlace(_)
ClampedInPlace(items) ==
    IF items = <<>> THEN <<>>
    ELSE LET pt == Head(items)
         IN  <<IF pt.rec /\ pt.end_assets.tag = "num" /\ pt.end_assets.n < 0
               THEN Record(pt.year, Num(0)) ELSE pt>> \o ClampedInPlace(Tail(items))

ReturnOrderedInPlace ==
    /\ pc = "call"
    /\ IsList(cashflows)
    /\ raw_points' = SanitizePoints(cashflows.items)
    /\ point_map' = AnchorYear0(DedupeByYear(raw_points'), raw_points')
    /\ DOMAIN point_map' # {}
    /\ annual' = InterpolateAnnual(point_map')
    /\ clamped' = DepletionClamp(annual')
    /\ \E up \in BOOLEAN :
          /\ half_up' = up
          /\ ordered' = SampleCheckpoints(clamped', up)
    /\ pc' = "done"
    /\ cashflows' = ListOf(ClampedInPlace(cashflows.items))
    /\ UNCHANGED notNorm

\* interpolation, depletion clamp and checkpoint sampling
ReturnOrdered ==
    /\ pc = "call"
    /\ IsList(cashflows)
    /\ raw_points' = SanitizePoints(cashflows.items)
    /\ point_map' = AnchorYear0(DedupeByYear(raw_points'), raw_points')
    /\ DOMAIN point_map' # {}
    /\ annual' = InterpolateAnnual(point_map')
    /\ clamped' = DepletionClamp(annual')
    /\ \E up \in BOOLEAN :
          /\ half_up' = up
          /\ ordered' = SampleCheckpoints(clamped', up)
    /\ pc' = "done"
    /\ UNCHANGED cashflows
    /\ UNCHANGED notNorm

Next == ReturnNotList \/ ReturnNoPoints \/ ReturnOrdered

Spec == Init /\ [][Next]_vars

Done == pc = "done"

\* one call on a list of OrderInputs
OrderInit ==
    /\ ChatIdle
    /\ CallsIdle
    /\ VoiceIdle
    /\ StoreIdle
    /\ RouteIdle
    /\ cashflows \in OrderInputs
    /\ pc = "call"
    /\ raw_points = <<>>
    /\ point_map = EmptyMap
    /\ annual = EmptyMap
    /\ clamped = EmptyMap
    /\ ordered = <<>>
    /\ half_up = FALSE

SpecOrder == OrderInit /\ [][Next]_vars

\* --------------------------------------------------------- the chat paths
\* chat_stream and chat_endpoint: the agent's response text is searched for
\* a JSON object, parsed, its predictions.cashflows enforced, the result
\* validated as AnalysisOutput and sent.

None == [kind |-> "none"]

\* analysis_dict["predictions"]: the key is absent, or holds None, another
\* falsy value (0, "", []), another value that is no dict, or a dict with its
\* metrics (valid or not) and its "cashflows" entry
NoPredictions == [kind |-> "absent", metrics_ok |-> FALSE, cashflows |-> NotAList("absent")]
NonDictPredictions(k) == [kind |-> k, metrics_ok |-> FALSE, cashflows |-> NotAList("absent")]
PredictionsDict(ok, c) == [kind |-> "dict", metrics_ok |-> ok, cashflows |-> c]

\* the value json.loads returns: an object with its predictions entry and
\* its other fields (valid for AnalysisOutput or not), or another value
JsonObject(p, ok) == [kind |-> "dict", predictions |-> p, rest_ok |-> ok]
JsonOther == [kind |-> "other", predictions |-> NoPredictions, rest_ok |-> FALSE]

\* the list enforce_cashflow_horizon returned, stored in the dict
Points(items) == [kind |-> "points", items |-> items]

\* x or []
OrEmptyList(c) ==
    IF c.kind \in {"absent", "null"} \/ (c.kind = "list" /\ c.items = <<>>)
    THEN ListOf(<<>>) ELSE c

\* (analysis_dict.get("predictions") or {}).get("cashflows") or []; raises
\* when predictions is a truthy value without .get
CashflowsOf(d) ==
    IF d.predictions.kind = "other" THEN Failed
    ELSE Ok(OrEmptyList(IF d.predictions.kind = "dict"
                        THEN d.predictions.cashflows ELSE NotAList("absent")))

\* setdefault("predictions", {}) followed by the item assignment; raises
\* when the key holds a value that is no dict (setdefault leaves it)
WithCashflows(d, out) ==
    CASE d.predictions.kind = "absent" ->
            Ok([d EXCEPT !.predictions = PredictionsDict(FALSE, Points(out))])
      [] d.predictions.kind = "dict" ->
            Ok([d EXCEPT !.predictions.cashflows = Points(out)])
      [] OTHER -> Failed

\* CashflowPoint(year: int >= 0, end_assets: float >= 0) accepts the element
PointAccepted(pt) ==
    /\ pt.rec
    /\ pt.year.tag \in {"num", "str"}
    /\ pt.year.n % Whole = 0
    /\ pt.year.n >= 0
    /\ \/ pt.end_assets.tag \in {"num", "str"} /\ pt.end_assets.n >= 0
       \/ pt.end_assets.tag = "inf"

\* the validated cashflows of Predictions (List[CashflowPoint] = [])
RECURSIVE PointsFrom(_)
PointsFrom(items) ==
    IF items = <<>> THEN <<>>
    ELSE <<[year |-> Head(items).year.n \div Whole,
            end_assets |-> IF Head(items).end_assets.tag = "inf" THEN Infinity
                           ELSE Head(items).end_assets.n]>> \o PointsFrom(Tail(items))

CashflowsAccepted(c) ==
    CASE c.kind = "points" -> \A i \in 1 .. Len(c.items) :
                                  c.items[i].year >= 0 /\ c.items[i].end_assets >= 0
      [] c.kind = "list" -> \A i \in 1 .. Len(c.items) : PointAccepted(c.items[i])
      [] c.kind = "absent" -> TRUE
      [] OTHER -> FALSE

\* AnalysisOutput(**analysis_dict) raises no ValidationError
Accepted(d) ==
    /\ d.kind = "dict"
    /\ d.rest_ok
    /\ d.predictions.kind = "dict"
    /\ d.predictions.metrics_ok
    /\ CashflowsAccepted(d.predictions.cashflows)

\* the AnalysisOutput instance: its predictions.cashflows
AnalysisOutput(d) ==
    [kind |-> "analysis",
     cashflows |-> CASE d.predictions.cashflows.kind = "points" ->
                          d.predictions.cashflows.items
                     [] d.predictions.cashflows.kind = "list" ->
                          PointsFrom(d.predictions.cashflows.items)
                     [] OTHER -> <<>>]

\* what the agent may have written under predictions.cashflows
AgentCashflows ==
    {NotAList("absent"), NotAList("null"), NotAList("str"),
     ListOf(<<>>),
     ListOf(<<Record(Num(Dollars(0)), Num(Dollars(100)))>>),
     ListOf(<<Record(Num(Dollars(0)), Num(Dollars(100))),
              Record(Num(Dollars(10)), Num(Dollars(300)))>>),
     ListOf(<<Record(Num(Dollars(3)), Num(Dollars(300))),
              Record(Num(Dollars(30)), Num(Dollars(300)))>>),
     ListOf(<<Record(Num(Dollars(0)), Num(Dollars(100))),
              Record(Num(Dollars(10)), Num(-Dollars(100)))>>),
     ListOf(<<Record(Num(Dollars(0)), Num(HalfCent)), NotARecord>>),
     ListOf(<<Record(Num(Dollars(5)), PosInf)>>),
     ListOf(GrowthExample), ListOf(BasicExample)}

AgentPredictions ==
    {NoPredictions, NonDictPredictions("null"), NonDictPredictions("falsy"),
     NonDictPredictions("other")}
    \cup {PredictionsDict(ok, c) : ok \in BOOLEAN, c \in AgentCashflows}

\* response_text: which endpoint received it, whether '{' ... '}' is found
\* in it, whether json.loads accepts the text taken, and the value it gives.
\* A text taken from '{' to '}' decodes to an object or not at all; a text
\* without such a part decodes to a value that is no object or not at all.
Responses ==
    {[endpoint |-> e, braces |-> TRUE, decodes |-> TRUE, value |-> JsonObject(p, ok)] :
        e \in {"chat_stream", "chat_endpoint"}, p \in AgentPredictions, ok \in BOOLEAN}
    \cup {[endpoint |-> e, braces |-> TRUE, decodes |-> FALSE, value |-> JsonOther] :
        e \in {"chat_stream", "chat_endpoint"}}
    \cup {[endpoint |-> e, braces |-> FALSE, decodes |-> b, value |-> JsonOther] :
        e \in {"chat_stream", "chat_endpoint"}, b \in BOOLEAN}

Event(type, analysis) == [type |-> type, analysis |-> analysis]

ChatInit ==
    /\ NormIdle
    /\ CallsIdle
    /\ VoiceIdle
    /\ StoreIdle
    /\ RouteIdle
    /\ response_text \in Responses
    /\ chat_pc = "text"
    /\ analysis_dict = None
    /\ analysis_data = None
    /\ sent = <<>>
    /\ warned = FALSE

\* json.loads succeeds (either branch of chat_stream, or chat_endpoint)
LoadJson ==
    /\ chat_pc = "text"
    /\ response_text.braces \/ response_text.endpoint = "chat_stream"
    /\ response_text.decodes
    /\ analysis_dict' = response_text.value
    /\ chat_pc' = "loaded"
    /\ UNCHANGED <<response_text, analysis_data, sent, warned>>
    /\ UNCHANGED notChat

\* json.loads raises JSONDecodeError: chat_stream yields a status, and
\* chat_endpoint prints; analysis_data stays None
LoadJsonFails ==
    /\ chat_pc = "text"
    /\ response_text.braces \/ response_text.endpoint = "chat_stream"
    /\ ~response_text.decodes
    /\ sent' = IF response_text.endpoint = "chat_stream"
               THEN Append(sent, Event("status", None)) ELSE sent
    /\ chat_pc' = "finish"
    /\ UNCHANGED <<response_text, analysis_dict, analysis_data, warned>>
    /\ UNCHANGED notChat

\* chat_endpoint finds no '{' ... '}': nothing is parsed
NoJsonFound ==
    /\ chat_pc = "text"
    /\ ~response_text.braces
    /\ response_text.endpoint = "chat_endpoint"
    /\ chat_pc' = "finish"
    /\ UNCHANGED <<response_text, analysis_dict, analysis_data, sent, warned>>
    /\ UNCHANGED notChat

EnforceKeepsRaw ==
    /\ chat_pc = "loaded"
    /\ analysis_dict.kind = "dict"
    /\ CashflowsOf(analysis_dict).ok
    /\ WithCashflows(analysis_dict, Fallback).ok
    /\ chat_pc' = "enforced"
    /\ UNCHANGED <<response_text, analysis_dict, analysis_data, sent, warned>>
    /\ UNCHANGED notChat

\* the try block runs to its end: predictions.cashflows is replaced
EnforceCashflows ==
    /\ chat_pc = "loaded"
    /\ analysis_dict.kind = "dict"
    /\ CashflowsOf(analysis_dict).ok
    /\ WithCashflows(analysis_dict, Fallback).ok
    /\ \E up \in BOOLEAN :
          analysis_dict' =
              WithCashflows(analysis_dict, Normalize(CashflowsOf(analysis_dict).x, up)).x
    /\ chat_pc' = "enforced"
    /\ UNCHANGED <<response_text, analysis_data, sent, warned>>
    /\ UNCHANGED notChat

\* the try block raises (AttributeError, TypeError): except Exception prints
\* the warning and the request goes on with the dict as it is
EnforceRaises ==
    /\ chat_pc = "loaded"
    /\ analysis_dict.kind = "dict"
    /\ ~CashflowsOf(analysis_dict).ok \/ ~WithCashflows(analysis_dict, Fallback).ok
    /\ warned' = TRUE
    /\ chat_pc' = "enforced"
    /\ UNCHANGED <<response_text, analysis_dict, analysis_data, sent>>
    /\ UNCHANGED notChat

\* isinstance(analysis_dict, dict) is false: the try block does nothing
EnforceSkipped ==
    /\ chat_pc = "loaded"
    /\ analysis_dict.kind # "dict"
    /\ chat_pc' = "enforced"
    /\ UNCHANGED <<response_text, analysis_dict, analysis_data, sent, warned>>
    /\ UNCHANGED notChat

\* AnalysisOutput(**analysis_dict) succeeds; chat_stream yields the analysis
ValidateAccepts ==
    /\ chat_pc = "enforced"
    /\ Accepted(analysis_dict)
    /\ analysis_data' = AnalysisOutput(analysis_dict)
    /\ sent' = IF response_text.endpoint = "chat_stream"
               THEN Append(sent, Event("analysis", analysis_data')) ELSE sent
    /\ chat_pc' = "finish"
    /\ UNCHANGED <<response_text, analysis_dict, warned>>
    /\ UNCHANGED notChat

\* AnalysisOutput(**analysis_dict) raises (ValidationError, or TypeError for
\* a value that is no dict): chat_stream yields a status, chat_endpoint prints
ValidateRejects ==
    /\ chat_pc = "enforced"
    /\ ~Accepted(analysis_dict)
    /\ analysis_data' = None
    /\ sent' = IF response_text.endpoint = "chat_stream"
               THEN Append(sent, Event("status", None)) ELSE sent
    /\ chat_pc' = "finish"
    /\ UNCHANGED <<response_text, analysis_dict, warned>>
    /\ UNCHANGED notChat

\* the final "complete" event of chat_stream, the ChatResponse of chat_endpoint
SendFinal ==
    /\ chat_pc = "finish"
    /\ sent' = Append(sent, Event(IF response_text.endpoint = "chat_stream"
                                  THEN "complete" ELSE "ChatResponse", analysis_data))
    /\ chat_pc' = "done"
    /\ UNCHANGED <<response_text, analysis_dict, analysis_data, warned>>
    /\ UNCHANGED notChat

ChatNext ==
    \/ LoadJson
    \/ LoadJsonFails
    \/ NoJsonFound
    \/ EnforceCashflows
    \/ EnforceRaises
    \/ EnforceSkipped
    \/ ValidateAccepts
    \/ ValidateRejects
    \/ SendFinal

SpecChat == ChatInit /\ [][ChatNext]_vars

\* ------------------------------------------------------- concurrent calls
\* NumCalls requests call enforce_cashflow_horizon and are interleaved
\* between its loops.  raw_points, point_map and annual are local names
\* of the function: each call has a frame of its own.
Calls == 1 .. NumCalls

FrameShared(p) == 1

\* the frame that holds the locals of call p
Frame(p) == p

EmptyFrame == [raw_points |-> <<>>, point_map |-> EmptyMap, annual |-> EmptyMap]

CallInputs ==
    {ListOf(<<Record(Num(Dollars(0)), Num(Dollars(100))),
              Record(Num(Dollars(10)), Num(Dollars(300)))>>),
     ListOf(<<Record(Num(Dollars(3)), Num(Dollars(300))),
              Record(Num(Dollars(10)), Num(-Dollars(100)))>>),
     ListOf(<<Record(Num(Dollars(5)), Num(HalfCent)), NotARecord>>),
     ListOf(<<Record(Num(Dollars(26)), Num(Dollars(300)))>>),
     NotAList("null")}

CallsInit ==
    /\ NormIdle
    /\ ChatIdle
    /\ VoiceIdle
    /\ StoreIdle
    /\ RouteIdle
    /\ call_in \in [Calls -> CallInputs]
    /\ call_pc = [p \in Calls |-> "call"]
    /\ frames = [p \in Calls |-> EmptyFrame]
    /\ result = [p \in Calls |-> <<>>]
    /\ call_up = [p \in Calls |-> FALSE]

\* the isinstance test and the loop that collects raw_points
CallSanitize(p) ==
    /\ call_pc[p] = "call"
    /\ IF ~IsList(call_in[p])
       THEN /\ result' = [result EXCEPT ![p] = Fallback]
            /\ call_pc' = [call_pc EXCEPT ![p] = "done"]
            /\ UNCHANGED frames
       ELSE /\ frames' = [frames EXCEPT ![Frame(p)].raw_points =
                                            SanitizePoints(call_in[p].items)]
            /\ call_pc' = [call_pc EXCEPT ![p] = "dedupe"]
            /\ UNCHANGED result
    /\ UNCHANGED <<call_in, call_up>>
    /\ UNCHANGED notCall

\* the loop that fills point_map, the year 0 anchor, the second early return
CallDedupe(p) ==
    /\ call_pc[p] = "dedupe"
    /\ LET raw == frames[Frame(p)].raw_points
           m == AnchorYear0(DedupeByYear(raw), raw)
       IN  /\ frames' = [frames EXCEPT ![Frame(p)].point_map = m]
           /\ IF DOMAIN m = {}
              THEN /\ result' = [result EXCEPT ![p] = Fallback]
                   /\ call_pc' = [call_pc EXCEPT ![p] = "done"]
              ELSE /\ call_pc' = [call_pc EXCEPT ![p] = "interpolate"]
                   /\ UNCHANGED result
    /\ UNCHANGED <<call_in, call_up>>
    /\ UNCHANGED notCall

\* the loop over years_sorted that builds annual
CallInterpolate(p) ==
    /\ call_pc[p] = "interpolate"
    /\ frames' = [frames EXCEPT ![Frame(p)].annual =
                                   InterpolateAnnual(frames[Frame(p)].point_map)]
    /\ call_pc' = [call_pc EXCEPT ![p] = "scan"]
    /\ UNCHANGED <<call_in, result, call_up>>
    /\ UNCHANGED notCall

\* the depletion scan of the years 0..25
CallScan(p) ==
    /\ call_pc[p] = "scan"
    /\ frames' = [frames EXCEPT ![Frame(p)].annual =
                                   DepletionClamp(frames[Frame(p)].annual)]
    /\ call_pc' = [call_pc EXCEPT ![p] = "sample"]
    /\ UNCHANGED <<call_in, result, call_up>>
    /\ UNCHANGED notCall

\* the sampling loop and the return
CallSample(p) ==
    /\ call_pc[p] = "sample"
    /\ \E up \in BOOLEAN :
          /\ call_up' = [call_up EXCEPT ![p] = up]
          /\ result' = [result EXCEPT ![p] =
                                     SampleCheckpoints(frames[Frame(p)].annual, up)]
    /\ call_pc' = [call_pc EXCEPT ![p] = "done"]
    /\ UNCHANGED <<call_in, frames>>
    /\ UNCHANGED notCall

CallsNext ==
    \E p \in Calls :
        \/ CallSanitize(p)
        \/ CallDedupe(p)
        \/ CallInterpolate(p)
        \/ CallScan(p)
        \/ CallSample(p)

SpecCalls == CallsInit /\ [][CallsNext]_vars

\* ------------------------------------------------------------ LocalStorage
\* One JSON file per user and kind holds a list of records; a missing file
\* reads as the empty list.  Every method is a coroutine without an await,
\* so each call is one step.
Kinds == {"conversations", "scenarios"}
Users == {"u1", "u2"}
Ids == {"a", "b"}
Bodies == {"v1", "v2"}

\* conversation.model_dump() / scenario.model_dump()
Dump(id, body) == [id |-> id, body |-> body]

\* next((i for i, c in enumerate(records) if c.get("id") == id), None);
\* 0 stands for None
ExistingIdx(records, id) ==
    IF \E i \in 1 .. Len(records) : records[i].id = id
    THEN MinOf({i \in 1 .. Len(records) : records[i].id = id})
    ELSE 0

UpsertAppend(records, rec) == Append(records, rec)

\* update existing or add new
Upsert(records, rec) ==
    IF ExistingIdx(records, rec.id) # 0
    THEN [records EXCEPT ![ExistingIdx(records, rec.id)] = rec]
    ELSE Append(records, rec)

\* the first record with the id, or None
Lookup(records, id) ==
    IF ExistingIdx(records, id) # 0 THEN records[ExistingIdx(records, id)] ELSE None

RemoveTruncate(records, id) ==
    IF ExistingIdx(records, id) # 0
    THEN SubSeq(records, 1, ExistingIdx(records, id) - 1)
    ELSE records

\* [c for c in records if c.get("id") != id]
Remove(records, id) ==
    LET keep(c) == c.id # id IN SelectSeq(records, keep)

Call(op, kind, user, id, body, value) ==
    [op |-> op, kind |-> kind, user |-> user, id |-> id, body |-> body, value |-> value]

StoreInit ==
    /\ NormIdle
    /\ ChatIdle
    /\ CallsIdle
    /\ VoiceIdle
    /\ RouteIdle
    /\ files = [k \in Kinds |-> [u \in Users |-> <<>>]]
    /\ ret = Call("none", "conversations", "u1", "a", "v1", None)
    /\ saved = [k \in Kinds |-> [u \in Users |-> [i \in Ids |-> None]]]
    /\ wrote = None

\* _save_json(file_path, data): the file that was opened for writing
Written(k, u) == [kind |-> k, user |-> u]

RECURSIVE SumOver(_, _)
SumOver(f, S) ==
    IF S = {} THEN 0
    ELSE LET x == CHOOSE x \in S : TRUE IN f[x] + SumOver(f, S \ {x})

\* the number of records in all files
Stored ==
    SumOver([f \in Kinds \X Users |-> Len(files[f[1]][f[2]])], Kinds \X Users)

\* save_conversation / save_scenario
Save(k, u, id, body) ==
    /\ ExistingIdx(files[k][u], id) # 0 \/ Stored < MaxRecords
    /\ files' = [files EXCEPT ![k][u] = Upsert(files[k][u], Dump(id, body))]
    /\ ret' = Call("save", k, u, id, body, id)
    /\ saved' = [saved EXCEPT ![k][u][id] = Dump(id, body)]
    /\ wrote' = Written(k, u)
    /\ UNCHANGED notStore

\* get_conversation / get_scenario
GetRecord(k, u, id) ==
    /\ ret' = Call("get", k, u, id, "v1", Lookup(files[k][u], id))
    /\ wrote' = None
    /\ UNCHANGED <<files, saved>>
    /\ UNCHANGED notStore

\* delete_conversation / delete_scenario
Delete(k, u, id) ==
    /\ IF Len(Remove(files[k][u], id)) < Len(files[k][u])
       THEN /\ files' = [files EXCEPT ![k][u] = Remove(files[k][u], id)]
            /\ ret' = Call("delete", k, u, id, "v1", TRUE)
            /\ wrote' = Written(k, u)
       ELSE /\ UNCHANGED files
            /\ ret' = Call("delete", k, u, id, "v1", FALSE)
            /\ wrote' = None
    /\ saved' = [saved EXCEPT ![k][u][id] = None]
    /\ UNCHANGED notStore

StoreNext ==
    \E k \in Kinds, u \in Users, id \in Ids :
        \/ \E body \in Bodies : Save(k, u, id, body)
        \/ GetRecord(k, u, id)
        \/ Delete(k, u, id)

SpecStore == StoreInit /\ [][StoreNext]_vars

\* ------------------------------------------------------ VoiceSessionManager
\* The Azure callbacks run on the event loop and put their messages on
\* self._send_queue; the task _ordered_sender takes them off and awaits
\* send_message for each.  wire lists every message send_message was called
\* with, by the sender task or directly.

\* a message for the frontend; n numbers the messages of the session
Msg(type, data, n) == [type |-> type, data |-> data, n |-> n]

\* self._send_queue.put_nowait(msg) on the unbounded FIFO queue
EnqueueFront(q, msg) == <<msg>> \o q

Enqueue(q, msg) == Append(q, msg)

\* status_map.get(new_status, VoiceSessionStatus.IDLE)
StatusMap(new_status) ==
    CASE new_status \in {"connected", "listening", "interrupted"} -> "listening"
      [] new_status = "thinking" -> "thinking"
      [] new_status \in {"speaking", "generation_done"} -> "speaking"
      [] OTHER -> "idle"

\* the statuses the callbacks report while the session runs
AzureStatuses == {"speaking", "generation_done"}

\* _enqueue of the next message of the session
Produce(type, data) ==
    LET msg == Msg(type, data, Len(enqueued) + 1)
    IN  /\ send_queue' = Enqueue(send_queue, msg)
        /\ enqueued' = Append(enqueued, msg)

VoiceInit ==
    /\ NormIdle
    /\ ChatIdle
    /\ CallsIdle
    /\ StoreIdle
    /\ RouteIdle
    /\ session = "created"
    /\ status = "idle"
    /\ send_queue = <<>>
    /\ sender_task = "none"
    /\ sending = None
    /\ enqueued = <<>>
    /\ handed = <<>>
    /\ wire = <<>>
    /\ direct = None

\* a message passed to send_message without the queue; n is the number of
\* messages enqueued before
Direct(type, data) == Msg(type, data, Len(enqueued))

\* start(): the sender task is created, connect() succeeds and reports
\* "connected", then the status update; the route handler then awaits
\* send_message(session_started)
StartSession ==
    /\ session = "created"
    /\ sender_task' = "waiting"
    /\ status' = "listening"
    /\ LET m1 == Msg("status", StatusMap("connected"), Len(enqueued) + 1)
           m2 == Msg("status", "listening", Len(enqueued) + 2)
       IN  /\ send_queue' = Enqueue(Enqueue(send_queue, m1), m2)
           /\ enqueued' = enqueued \o <<m1, m2>>
    /\ session' = "started"
    /\ direct' = Direct("session_started", "session")
    /\ wire' = Append(wire, direct')
    /\ UNCHANGED <<sending, handed>>
    /\ UNCHANGED notVoice

\* start(): connect() fails and reports the error; start returns False and
\* the sender task stays; the route handler then awaits send_message(error)
StartFails ==
    /\ session = "created"
    /\ sender_task' = "waiting"
    /\ status' = "error"
    /\ Produce("error", "connect")
    /\ session' = "failed"
    /\ direct' = Direct("error", "start")
    /\ wire' = Append(wire, direct')
    /\ UNCHANGED <<sending, handed>>
    /\ UNCHANGED notVoice

\* the route handler's send_message returned
RouteSent ==
    /\ direct # None
    /\ direct.type \in {"session_started", "error"}
    /\ direct' = None
    /\ UNCHANGED <<session, status, send_queue, sender_task, sending, enqueued, handed, wire>>
    /\ UNCHANGED notVoice

\* _on_audio_chunk
OnAudioChunk ==
    /\ session = "started"
    /\ Len(enqueued) < MaxMessages
    /\ Produce("audio_chunk", "audio")
    /\ UNCHANGED <<session, status, sender_task, sending, handed, wire, direct>>
    /\ UNCHANGED notVoice

\* _on_transcript
OnTranscript ==
    /\ session = "started"
    /\ Len(enqueued) < MaxMessages
    /\ Produce("transcript", "text")
    /\ UNCHANGED <<session, status, sender_task, sending, handed, wire, direct>>
    /\ UNCHANGED notVoice

\* _on_status_change: "interrupted" and "generation_done" go out raw
OnStatusChange(new_status) ==
    /\ session = "started"
    /\ Len(enqueued) < MaxMessages
    /\ status' = StatusMap(new_status)
    /\ Produce("status", IF new_status \in {"interrupted", "generation_done"}
                         THEN new_status ELSE status')
    /\ UNCHANGED <<session, sender_task, sending, handed, wire, direct>>
    /\ UNCHANGED notVoice

\* _on_error
OnError ==
    /\ session = "started"
    /\ Len(enqueued) < MaxMessages
    /\ status' = "error"
    /\ Produce("error", "azure")
    /\ UNCHANGED <<session, sender_task, sending, handed, wire, direct>>
    /\ UNCHANGED notVoice

\* _ordered_sender: msg = await self._send_queue.get(); the sentinel ends
\* the loop, any other message is passed to send_message
SenderTakes ==
    /\ sender_task = "waiting"
    /\ send_queue # <<>>
    /\ send_queue' = Tail(send_queue)
    /\ IF Head(send_queue) = None
       THEN /\ sender_task' = "done"
            /\ UNCHANGED <<sending, handed, wire>>
       ELSE /\ sender_task' = "sending"
            /\ sending' = Head(send_queue)
            /\ handed' = Append(handed, Head(send_queue))
            /\ wire' = Append(wire, Head(send_queue))
    /\ UNCHANGED <<session, status, enqueued, direct>>
    /\ UNCHANGED notVoice

\* _ordered_sender: send_message returned or raised; the loop goes on
SenderSent ==
    /\ sender_task = "sending"
    /\ sender_task' = "waiting"
    /\ sending' = None
    /\ UNCHANGED <<session, status, send_queue, enqueued, handed, wire, direct>>
    /\ UNCHANGED notVoice

\* end_turn(), called by the route handler: turn_end is passed to
\* send_message directly and the call awaited
EndTurn ==
    /\ session = "started"
    /\ direct = None
    /\ Len(enqueued) < MaxMessages
    /\ direct' = Direct("turn_end", "turn")
    /\ wire' = Append(wire, direct')
    /\ UNCHANGED <<session, status, send_queue, sender_task, sending, enqueued, handed>>
    /\ UNCHANGED notVoice

\* end_turn(): send_message returned; the status update is enqueued
EndTurnSent ==
    /\ session = "started"
    /\ direct # None
    /\ direct.type = "turn_end"
    /\ direct' = None
    /\ status' = "listening"
    /\ Produce("status", "listening")
    /\ UNCHANGED <<session, sender_task, sending, handed, wire>>
    /\ UNCHANGED notVoice

\* what close() does after its end_turn(): disconnect() reports
\* "disconnected", the sentinel is put on the queue of a running sender task
Disconnect(turn) ==
    LET m1 == Msg("status", "listening", Len(enqueued) + 1)
        m2 == Msg("status", StatusMap("disconnected"),
                  Len(enqueued) + (IF turn THEN 2 ELSE 1))
        msgs == IF turn THEN <<m1, m2>> ELSE <<m2>>
        q == IF turn THEN Enqueue(Enqueue(send_queue, m1), m2)
             ELSE Enqueue(send_queue, m2)
    IN  /\ enqueued' = enqueued \o msgs
        /\ send_queue' = IF sender_task \in {"waiting", "sending"}
                         THEN Enqueue(q, None) ELSE q
        /\ status' = "idle"
        /\ session' = "closing"

\* close(), called by the route handler: end_turn() when a turn is open,
\* whose turn_end is passed to send_message directly and the call awaited
Close ==
    /\ session \in {"started", "failed"}
    /\ direct = None
    /\ IF session = "started"
       THEN /\ direct' = Direct("turn_end", "turn")
            /\ wire' = Append(wire, direct')
            /\ session' = "ending"
            /\ UNCHANGED <<status, send_queue, enqueued>>
       ELSE /\ Disconnect(FALSE)
            /\ UNCHANGED <<wire, direct>>
    /\ UNCHANGED <<sender_task, sending, handed>>
    /\ UNCHANGED notVoice

\* close(): the send_message of its end_turn() returned
CloseTurnEnded ==
    /\ session = "ending"
    /\ direct # None
    /\ direct' = None
    /\ Disconnect(TRUE)
    /\ UNCHANGED <<sender_task, sending, handed, wire>>
    /\ UNCHANGED notVoice

\* close(): the sender task ended within the 2 seconds
CloseJoined ==
    /\ session = "closing"
    /\ sender_task = "done"
    /\ session' = "closed"
    /\ UNCHANGED <<status, send_queue, sender_task, sending, enqueued, handed, wire, direct>>
    /\ UNCHANGED notVoice

\* close(): asyncio.TimeoutError after 2 seconds, the sender task is cancelled
CloseCancels ==
    /\ session = "closing"
    /\ sender_task \in {"waiting", "sending"}
    /\ sender_task' = "cancelled"
    /\ sending' = None
    /\ session' = "closed"
    /\ UNCHANGED <<status, send_queue, enqueued, handed, wire, direct>>
    /\ UNCHANGED notVoice

VoiceNext ==
    \/ StartSession
    \/ StartFails
    \/ RouteSent
    \/ OnAudioChunk
    \/ OnTranscript
    \/ \E new_status \in AzureStatuses : OnStatusChange(new_status)
    \/ OnError
    \/ SenderTakes
    \/ SenderSent
    \/ EndTurn
    \/ EndTurnSent
    \/ Close
    \/ CloseTurnEnded
    \/ CloseJoined
    \/ CloseCancels

SpecVoice == VoiceInit /\ [][VoiceNext]_vars

\* ------------------------------------------------------ the voice route
\* voice_session_websocket: the message loop of one connection.  A manager
\* is recorded with what start() returned, the state of its sender task and
\* of its Azure connection, and whether close() was called on it.
Manager(connected) ==
    [started |-> connected,
     sender_task |-> "running",
     azure |-> IF connected THEN "connected" ELSE "failed",
     closed |-> FALSE]

\* close(): disconnect, the sender task stopped by the sentinel or cancelled
Closed(m) ==
    [m EXCEPT !.sender_task = "stopped", !.azure = "disconnected", !.closed = TRUE]

RouteInit ==
    /\ NormIdle
    /\ ChatIdle
    /\ CallsIdle
    /\ VoiceIdle
    /\ StoreIdle
    /\ handler = "loop"
    /\ session_manager = 0
    /\ managers = <<>>
    /\ active_sessions = 0
    /\ received = 0
    /\ replies = <<>>

\* websocket.receive_text() returned a message
Receives ==
    /\ handler = "loop"
    /\ received < MaxClientMessages
    /\ received' = received + 1

\* "start_session": a new VoiceSessionManager is assigned to session_manager
\* and to active_sessions[session_id], started, and the outcome sent
ReceiveStartSession(success) ==
    /\ Receives
    /\ managers' = Append(managers, Manager(success))
    /\ session_manager' = Len(managers')
    /\ active_sessions' = session_manager'
    /\ replies' = Append(replies, IF success THEN "session_started" ELSE "error")
    /\ UNCHANGED handler
    /\ UNCHANGED notRoute

\* "audio_chunk": an error when no session was started
ReceiveAudioChunk ==
    /\ Receives
    /\ replies' = IF session_manager = 0 THEN Append(replies, "error") ELSE replies
    /\ UNCHANGED <<handler, session_manager, managers, active_sessions>>
    /\ UNCHANGED notRoute

\* "interrupt", "end_turn": passed to the session manager, if any
ReceiveTurnMessage ==
    /\ Receives
    /\ UNCHANGED <<handler, session_manager, managers, active_sessions, replies>>
    /\ UNCHANGED notRoute

\* any other type, or text that is no JSON
ReceiveUnknown ==
    /\ Receives
    /\ replies' = Append(replies, "error")
    /\ UNCHANGED <<handler, session_manager, managers, active_sessions>>
    /\ UNCHANGED notRoute

\* "close_session": close() on session_manager, then break
ReceiveCloseSession ==
    /\ Receives
    /\ IF session_manager # 0
       THEN /\ managers' = [managers EXCEPT ![session_manager] = Closed(@)]
            /\ active_sessions' = 0
            /\ session_manager' = 0
       ELSE UNCHANGED <<session_manager, managers, active_sessions>>
    /\ handler' = "finally"
    /\ UNCHANGED replies
    /\ UNCHANGED notRoute

\* WebSocketDisconnect: break
ReceiveDisconnect ==
    /\ handler = "loop"
    /\ handler' = "finally"
    /\ UNCHANGED <<session_manager, managers, active_sessions, received, replies>>
    /\ UNCHANGED notRoute

\* finally: close() on session_manager, active_sessions.pop(session_id)
Cleanup ==
    /\ handler = "finally"
    /\ managers' = IF session_manager # 0
                   THEN [managers EXCEPT ![session_manager] = Closed(@)]
                   ELSE managers
    /\ active_sessions' = 0
    /\ handler' = "returned"
    /\ UNCHANGED <<session_manager, received, replies>>
    /\ UNCHANGED notRoute

RouteNext ==
    \/ \E success \in BOOLEAN : ReceiveStartSession(success)
    \/ ReceiveAudioChunk
    \/ ReceiveTurnMessage
    \/ ReceiveUnknown
    \/ ReceiveCloseSession
    \/ ReceiveDisconnect
    \/ Cleanup

SpecRoute == RouteInit /\ [][RouteNext]_vars


\* ------------------------------------------------------------ claim helpers
Checkpoints == {EXPECTED_CASHFLOW_YEARS[i] : i \in 1 .. Len(EXPECTED_CASHFLOW_YEARS)}
Amounts == [i \in 1 .. Len(ordered) |-> ordered[i].end_assets]
Without(s, i) == [j \in 1 .. (Len(s) - 1) |-> IF j < i THEN s[j] ELSE s[j + 1]]

\* the element is no record, or a field of it fails int() or float()
Uncoercible(pt) ==
    \/ ~pt.rec
    \/ pt.year.tag \in {"bad", "null", "inf", "nan"}
    \/ pt.year.tag = "str" /\ pt.year.n % Whole # 0
    \/ pt.end_assets.tag \in {"bad", "null"}

\* the year converts to an integer outside 0..25
YearOutside(pt) ==
    /\ pt.rec
    /\ pt.year.tag \in {"num", "str"}
    /\ (pt.year.n <= -Whole \/ pt.year.n >= 26 * Whole)

\* the year is written as an integer outside 0..25
IntegerYearOutside(pt) == YearOutside(pt) /\ pt.year.n % Whole = 0

\* the year is written as one of the six checkpoint years
OnGrid(pt) ==
    /\ pt.rec
    /\ pt.year.tag \in {"num", "str"}
    /\ \E y \in {0, 5, 10, 15, 20, 25} : pt.year.n = y * Whole

IsCanonical(c) ==
    /\ c.kind = "list"
    /\ Len(c.items) = 6
    /\ \A i \in 1 .. 6 :
          /\ c.items[i].rec
          /\ c.items[i].year = Num(<<0, 5, 10, 15, 20, 25>>[i] * Whole)
          /\ c.items[i].end_assets.tag = "num"
          /\ c.items[i].end_assets.n > 0
          /\ c.items[i].end_assets.n % UnitsPerCent = 0

\* ------------------------------------------------------------------ claims

\* C1: whatever the argument (well-formed records, malformed records, an
\* empty list, a value that is no list), the result has exactly 6 records
\* and their years are 0, 5, 10, 15, 20, 25 in that order.
C1_OutputShape ==
    Done => /\ Len(ordered) = 6
            /\ [i \in 1 .. 6 |-> ordered[i].year] = <<0, 5, 10, 15, 20, 25>>

W1_OutputShape ==
    /\ Done
    /\ IsList(cashflows)
    /\ \E i \in 1 .. Len(cashflows.items) : Uncoercible(cashflows.items[i])
    /\ raw_points # <<>>
    /\ Len(ordered) = 6

\* C2: every end_assets of the result is >= 0, also when a record carries a
\* negative end_assets and when a gap is interpolated toward a clamped value.
C2_NonNegative ==
    Done => \A i \in 1 .. Len(ordered) : ordered[i].end_assets >= 0

W2_NonNegative ==
    /\ Done
    /\ \E i \in 1 .. Len(cashflows.items) :
          /\ ~Uncoercible(cashflows.items[i])
          /\ cashflows.items[i].year.n = 10 * Whole
          /\ cashflows.items[i].end_assets.n < 0
    /\ ordered[1].end_assets > 0
    /\ ordered[2].end_assets > 0
    /\ ordered[3].end_assets = 0

\* C3 (as stated): once a checkpoint of the result is 0 after rounding,
\* every later checkpoint of the result is 0 as well.
CE3_ZeroStaysZero ==
    Done => \A i, j \in 1 .. Len(ordered) :
                i < j /\ ordered[i].end_assets = 0 => ordered[j].end_assets = 0

\* C4 (as stated): the result equals the result for the records at the six
\* checkpoint years alone; records at other years have no effect.
CE4_OffGridIgnored ==
    Done /\ IsList(cashflows) =>
        ordered = Normalize(ListOf(SelectSeq(cashflows.items, OnGrid)), half_up)

\* C5: depletion is permanent. If the dense annual value of a year y (known
\* or interpolated) is 0, every checkpoint >= y is 0 in the result, also when
\* a later record is positive; a known 0 at year 20 and no point at 25 gives
\* 0 at 20 and at 25.
C5_DepletionPermanent ==
    Done =>
        /\ \A y \in DOMAIN annual :
              annual[y].n = 0 =>
                  \A i \in 1 .. 6 :
                      ordered[i].year >= y => ordered[i].end_assets = 0
        /\ cashflows = ListOf(GapExample) =>
              ordered[5].end_assets = 0 /\ ordered[6].end_assets = 0

W5_DepletionPermanent ==
    /\ Done
    /\ \E y \in DOMAIN annual :
          /\ y < 10
          /\ annual[y].n = 0
          /\ 10 \in DOMAIN point_map
          /\ point_map[10].n > 0
    /\ ordered[3].end_assets = 0
    /\ ordered[6].end_assets = 0

\* C6: an empty list, a list no record of which survives sanitization, and a
\* value that is no list are no errors: the call returns the six checkpoint
\* years with end_assets 0.0 each.
C6_FallbackZeros ==
    LET fallback_case ==
            \/ ~IsList(cashflows)
            \/ \A i \in 1 .. Len(cashflows.items) :
                  Uncoercible(cashflows.items[i]) \/ YearOutside(cashflows.items[i])
    IN  Done /\ fallback_case =>
            ordered = [i \in 1 .. 6 |->
                          [year |-> <<0, 5, 10, 15, 20, 25>>[i], end_assets |-> 0]]

W6_FallbackZeros ==
    /\ Done
    /\ IsList(cashflows)
    /\ Len(cashflows.items) >= 2
    /\ \E i \in 1 .. Len(cashflows.items) : YearOutside(cashflows.items[i])
    /\ \E i \in 1 .. Len(cashflows.items) : Uncoercible(cashflows.items[i])
    /\ raw_points = <<>>
    /\ Amounts = <<0, 0, 0, 0, 0, 0>>

\* C7: a record whose year does not convert to an integer or whose
\* end_assets does not convert to a number (a missing field and an element
\* that is no record included) is dropped without an error: the result is
\* the result for the list without that record.
C7_MalformedDropped ==
    Done /\ IsList(cashflows) =>
        \A i \in 1 .. Len(cashflows.items) :
            Uncoercible(cashflows.items[i]) =>
                ordered = Normalize(ListOf(Without(cashflows.items, i)), half_up)

W7_MalformedDropped ==
    /\ Done
    /\ \E i \in 1 .. Len(cashflows.items) :
          /\ cashflows.items[i].rec
          /\ cashflows.items[i].end_assets = Null
    /\ \E i \in 1 .. Len(cashflows.items) : cashflows.items[i].year = Bad
    /\ Len(raw_points) = 1
    /\ ordered[3].end_assets > 0

\* C8: a record with an integer year < 0 or > 25 is dropped, not clipped:
\* the result is the result for the list without it, and its value is not
\* given to year 0 or to year 25.
C8_OutOfRangeDropped ==
    Done /\ IsList(cashflows) =>
        \A i \in 1 .. Len(cashflows.items) :
            IntegerYearOutside(cashflows.items[i]) =>
                ordered = Normalize(ListOf(Without(cashflows.items, i)), half_up)

W8_OutOfRangeDropped ==
    /\ Done
    /\ \E i \in 1 .. Len(cashflows.items) :
          /\ IntegerYearOutside(cashflows.items[i])
          /\ cashflows.items[i].year.n < 0
          /\ ordered[1].end_assets # cashflows.items[i].end_assets.n
    /\ \E i \in 1 .. Len(cashflows.items) :
          /\ IntegerYearOutside(cashflows.items[i])
          /\ cashflows.items[i].year.n > 0
          /\ ordered[6].end_assets # cashflows.items[i].end_assets.n
    /\ ordered[6].end_assets > 0

\* C9: a series at the six checkpoint years whose values are all > 0 and
\* have at most 2 decimals comes back with the same six values.
C9_CanonicalUnchanged ==
    Done /\ IsCanonical(cashflows) =>
        Amounts = [i \in 1 .. 6 |-> cashflows.items[i].end_assets.n]

W9_CanonicalUnchanged ==
    /\ Done
    /\ IsCanonical(cashflows)
    /\ cashflows.items[2].end_assets.n % Whole # 0
    /\ ordered[2].end_assets > ordered[1].end_assets
    /\ ordered[3].end_assets < ordered[2].end_assets

\* C10: gaps are filled linearly. For consecutive known years a < b with
\* values va, vb and a checkpoint y strictly between them before which no
\* dense value is 0, the result at y is va + (vb - va)*(y - a)/(b - a)
\* rounded to 2 decimals; {0: 50000, 5: 20000, 20: 0} gives 13333.33 at
\* year 10 and 6666.67 at year 15.
C10_LinearGapFill ==
    Done =>
        /\ \A a, b \in DOMAIN point_map :
              (/\ a < b
               /\ ~\E k \in DOMAIN point_map : a < k /\ k < b
               /\ Finite(point_map[a])) =>
                  \A i \in 1 .. 6 :
                      LET y == ordered[i].year
                      IN  (a < y /\ y < b
                           /\ \A k \in DOMAIN annual : k < y => annual[k].n > 0) =>
                              ordered[i].end_assets =
                                  IF Finite(point_map[b])
                                  THEN Round2(Rat(point_map[a].n * (b - a)
                                                    + (point_map[b].n - point_map[a].n) * (y - a),
                                                  b - a), half_up)
                                  ELSE Infinity
        /\ cashflows = ListOf(GapExample) =>
              /\ ordered[3].end_assets = 13333 * Whole + 33 * UnitsPerCent
              /\ ordered[4].end_assets = 6666 * Whole + 67 * UnitsPerCent

W10_LinearGapFill ==
    /\ Done
    /\ DOMAIN point_map = {0, 3, 10}
    /\ point_map[3].n > point_map[10].n
    /\ point_map[10].n > 0
    /\ ordered[2].end_assets < point_map[3].n
    /\ ordered[2].end_assets > point_map[10].n

\* ------------------------------------------------ claim helpers (C11..C17)
\* the element passes sanitization: both fields convert, the year is in range
Valid(pt) == ~Uncoercible(pt) /\ ~YearOutside(pt)

\* the year and the clamped value a valid record is written with
WrittenYear(pt) == IF pt.year.n >= 0 THEN pt.year.n \div Whole ELSE 0
WrittenValue(pt) ==
    CASE pt.end_assets.tag = "inf" -> Inf
      [] pt.end_assets.tag = "nan" -> Zero
      [] OTHER -> IF pt.end_assets.n > 0 THEN Units(pt.end_assets.n) ELSE Zero

ValidAt(items) == {i \in 1 .. Len(items) : Valid(items[i])}
LastAt(items, y) ==
    CHOOSE i \in ValidAt(items) :
        /\ WrittenYear(items[i]) = y
        /\ \A j \in ValidAt(items) : WrittenYear(items[j]) = y => j <= i

\* C11: last write wins. Of two valid in-range records with the same year
\* the earlier one has no effect: the result is the result for the list
\* without it.
C11_LastWriteWins ==
    Done /\ IsList(cashflows) =>
        \A i, j \in ValidAt(cashflows.items) :
            (i < j /\ WrittenYear(cashflows.items[i]) = WrittenYear(cashflows.items[j])) =>
                ordered = Normalize(ListOf(Without(cashflows.items, i)), half_up)

W11_LastWriteWins ==
    /\ Done
    /\ IsList(cashflows)
    /\ \E i, j \in ValidAt(cashflows.items) :
          /\ i < j
          /\ WrittenYear(cashflows.items[i]) = 10
          /\ WrittenYear(cashflows.items[j]) = 10
          /\ cashflows.items[i].end_assets.tag = "num"
          /\ cashflows.items[j].end_assets.tag = "num"
          /\ cashflows.items[i].end_assets.n > cashflows.items[j].end_assets.n
          /\ cashflows.items[j].end_assets.n > 0
          /\ ordered[3].end_assets = cashflows.items[j].end_assets.n

\* C12 (as stated): year-0 anchoring. With no valid record at year 0 and e
\* the smallest valid year, ve its clamped value, the result at every
\* checkpoint <= e (year 0 included) is ve rounded to 2 decimals.
CE12_AnchorYear0 ==
    (Done /\ IsList(cashflows) /\ ValidAt(cashflows.items) # {}
          /\ \A i \in ValidAt(cashflows.items) : WrittenYear(cashflows.items[i]) # 0) =>
        LET e == MinOf({WrittenYear(cashflows.items[i]) : i \in ValidAt(cashflows.items)})
            ve == WrittenValue(cashflows.items[LastAt(cashflows.items, e)])
        IN  \A k \in 1 .. 6 :
                <<0, 5, 10, 15, 20, 25>>[k] <= e =>
                    ordered[k].end_assets = Round2(ve, half_up)

\* C13: flat forward extension. With m the largest known year and no dense
\* value 0 up to m, every checkpoint > m carries the value at m rounded to 2
\* decimals; a single valid record at year 0 with v > 0 gives v (rounded) at
\* all six checkpoints.
C13_FlatForward ==
    Done =>
        /\ (DOMAIN point_map # {} /\ \A k \in DOMAIN annual : annual[k].n > 0) =>
              \A i \in 1 .. 6 :
                  ordered[i].year > MaxOf(DOMAIN point_map) =>
                      ordered[i].end_assets =
                          Round2(point_map[MaxOf(DOMAIN point_map)], half_up)
        /\ (/\ IsList(cashflows)
            /\ Len(cashflows.items) = 1
            /\ cashflows.items[1].rec
            /\ cashflows.items[1].year = Num(0)
            /\ ~Uncoercible(cashflows.items[1])
            /\ WrittenValue(cashflows.items[1]).n > 0) =>
              \A i \in 1 .. 6 :
                  ordered[i].end_assets =
                      Round2(WrittenValue(cashflows.items[1]), half_up)

W13_FlatForward ==
    /\ Done
    /\ DOMAIN point_map = {0, 3}
    /\ point_map[0].n > 0
    /\ point_map[3].n > point_map[0].n
    /\ ordered[6].end_assets = point_map[3].n
    /\ ordered[1].end_assets < ordered[6].end_assets

\* C14: negative values are clamped on input. Writing 0 for the negative
\* end_assets of a valid record leaves the result unchanged, and a negative
\* known point at year y forces every checkpoint >= y to 0.
C14_NegativeClamped ==
    Done /\ IsList(cashflows) =>
        \A i \in ValidAt(cashflows.items) :
            cashflows.items[i].end_assets.n < 0 =>
                /\ ordered =
                      Normalize(ListOf([cashflows.items EXCEPT ![i].end_assets.n = 0]),
                                half_up)
                /\ i = LastAt(cashflows.items, WrittenYear(cashflows.items[i])) =>
                      \A k \in 1 .. 6 :
                          ordered[k].year >= WrittenYear(cashflows.items[i]) =>
                              ordered[k].end_assets = 0

W14_NegativeClamped ==
    /\ Done
    /\ IsList(cashflows)
    /\ \E i \in ValidAt(cashflows.items) :
          /\ cashflows.items[i].end_assets.n < 0
          /\ i = LastAt(cashflows.items, 10)
    /\ 3 \in DOMAIN point_map
    /\ point_map[3].n > 0
    /\ ordered[2].end_assets > 0
    /\ ordered[2].end_assets < point_map[3].n
    /\ ordered[3].end_assets = 0

\* C16: rounding happens only at checkpoint sampling. Known values enter
\* unrounded, every interpolated annual value is the exact linear value of
\* the unrounded known values, the depletion test reads the unrounded value,
\* and each result value is the dense value of its year rounded once.
C16_RoundOnceAtSampling ==
    (Done /\ IsList(cashflows) /\ DOMAIN point_map # {}) =>
        /\ \A y \in DOMAIN point_map :
              \/ y = 0 /\ ~\E i \in ValidAt(cashflows.items) :
                             WrittenYear(cashflows.items[i]) = 0
              \/ point_map[y] =
                     WrittenValue(cashflows.items[LastAt(cashflows.items, y)])
        /\ \A a, b \in DOMAIN point_map :
              (/\ a < b
               /\ ~\E k \in DOMAIN point_map : a < k /\ k < b
               /\ Finite(point_map[a])
               /\ Finite(point_map[b])) =>
                  \A k \in (a + 1) .. (b - 1) :
                      annual[k] =
                          LET exact == Rat(point_map[a].n * (b - a)
                                             + (point_map[b].n - point_map[a].n) * (k - a),
                                           b - a)
                          IN  IF exact.n > 0 THEN exact ELSE Rat(0, 1)
        /\ \A y \in DOMAIN annual :
              (\A k \in DOMAIN annual : k <= y => annual[k].n > 0) =>
                  clamped[y] = annual[y]
        /\ \A i \in 1 .. 6 :
              ordered[i].end_assets = Round2(clamped[ordered[i].year], half_up)

W16_RoundOnceAtSampling ==
    /\ Done
    /\ DOMAIN point_map = {0, 3, 10}
    /\ point_map[0].n = SubCent
    /\ annual[5].n % (annual[5].d * UnitsPerCent) # 0
    /\ clamped[5] = annual[5]
    /\ ordered[1].end_assets = 0
    /\ ordered[2].end_assets > 0

\* C17: the call is pure. It leaves its argument as it was, and its result
\* is a function of the argument alone (and of the direction in which the
\* platform rounds an exact half cent).
C17_Pure ==
    [][/\ cashflows' = cashflows
       /\ ordered' = Normalize(cashflows, half_up')]_vars

W17_Pure ==
    /\ Done
    /\ IsList(cashflows)
    /\ \E i \in ValidAt(cashflows.items) : cashflows.items[i].end_assets.n < 0
    /\ \E i \in 1 .. Len(cashflows.items) : Uncoercible(cashflows.items[i])
    /\ ordered[1].end_assets > 0
    /\ ordered[3].end_assets = 0

\* C15: in the two branches of chat_stream and in chat_endpoint the
\* cashflows of the parsed object are replaced by the result of
\* enforce_cashflow_horizon before AnalysisOutput validates it, so every
\* analysis that is yielded or returned has six points at the years
\* 0, 5, 10, 15, 20, 25; an exception in the enforcement is swallowed and
\* the request is answered.
SixCheckpoints(a) ==
    a # None =>
        /\ Len(a.cashflows) = 6
        /\ [i \in 1 .. 6 |-> a.cashflows[i].year] = <<0, 5, 10, 15, 20, 25>>

C15_EnforcedBeforeValidation ==
    /\ SixCheckpoints(analysis_data)
    /\ \A i \in 1 .. Len(sent) : SixCheckpoints(sent[i].analysis)
    /\ (chat_pc = "enforced" /\ analysis_dict.kind = "dict" /\ ~warned) =>
          /\ analysis_dict.predictions.kind = "dict"
          /\ analysis_dict.predictions.cashflows.kind = "points"
          /\ \E up \in BOOLEAN :
                analysis_dict.predictions.cashflows.items =
                    Normalize(OrEmptyList(response_text.value.predictions.cashflows), up)
    /\ warned => chat_pc \in {"enforced", "finish", "done"}
    /\ chat_pc = "done" =>
          sent[Len(sent)].type = (IF response_text.endpoint = "chat_stream"
                                  THEN "complete" ELSE "ChatResponse")

W15_EnforcedBeforeValidation ==
    /\ chat_pc = "done"
    /\ response_text.endpoint = "chat_stream"
    /\ Len(response_text.value.predictions.cashflows.items) = 2
    /\ Len(sent) = 2
    /\ sent[1].type = "analysis"
    /\ sent[1].analysis.cashflows[2].end_assets > sent[1].analysis.cashflows[1].end_assets
    /\ sent[2].analysis = sent[1].analysis

\* C18: calls from several requests, interleaved between any two steps,
\* each return what the call returns when it runs alone.
C18_ConcurrentCalls ==
    \A p \in Calls :
        call_pc[p] = "done" => result[p] = Normalize(call_in[p], call_up[p])

W18_ConcurrentCalls ==
    /\ call_pc[1] = "done"
    /\ call_pc[2] = "scan"
    /\ call_in[1] # call_in[2]
    /\ frames[1].raw_points # <<>>
    /\ frames[2].raw_points # <<>>
    /\ frames[1].annual # frames[2].annual
    /\ result[1][3].end_assets > result[1][1].end_assets

\* C20: storage upsert and lookup. From the empty store, after every call
\* each stored list has at most one record per id; a save replaces the
\* record with its id in place or else appends, and returns the id; a get
\* returns the record last saved under the id, or None when it was never
\* saved or was deleted since.  For conversations and for scenarios alike.
OneRecordPerId(records) ==
    \A i, j \in 1 .. Len(records) : records[i].id = records[j].id => i = j

C20_UpsertAndLookup ==
    [][LET old == files[ret'.kind][ret'.user]
           new == files'[ret'.kind][ret'.user]
           rec == [id |-> ret'.id, body |-> ret'.body]
       IN  /\ \A k \in Kinds, u \in Users : OneRecordPerId(files'[k][u])
           /\ ret'.op = "save" =>
                 /\ ret'.value = ret'.id
                 /\ IF \E i \in 1 .. Len(old) : old[i].id = rec.id
                    THEN /\ Len(new) = Len(old)
                         /\ \A i \in 1 .. Len(old) :
                               new[i] = IF old[i].id = rec.id THEN rec ELSE old[i]
                    ELSE new = old \o <<rec>>
           /\ ret'.op = "get" => ret'.value = saved[ret'.kind][ret'.user][ret'.id]
      ]_vars

W20_UpsertAndLookup ==
    /\ ret.op = "get"
    /\ ret.kind = "scenarios"
    /\ ret.user = "u2"
    /\ ret.id = "a"
    /\ ret.value = [id |-> "a", body |-> "v2"]
    /\ Len(files["scenarios"]["u2"]) = 2
    /\ files["scenarios"]["u2"][1] = ret.value
    /\ files["conversations"]["u2"] = <<>>
    /\ files["scenarios"]["u1"] # <<>>

\* C19: ordered delivery. The sender task passes the messages the
\* callbacks enqueued to send_message one at a time and in the order of the
\* put_nowait calls, none skipped; a generation_done status is never passed
\* before an audio chunk that was enqueued earlier.
C19_OrderedDelivery ==
    /\ Len(handed) <= Len(enqueued)
    /\ \A i \in 1 .. Len(handed) : handed[i] = enqueued[i]
    /\ (sending # None) = (sender_task = "sending")
    /\ sending # None => sending = handed[Len(handed)]
    /\ \A i, j \in 1 .. Len(enqueued) :
          (/\ i < j
           /\ enqueued[i].type = "audio_chunk"
           /\ enqueued[j].data = "generation_done"
           /\ \E k \in 1 .. Len(handed) : handed[k] = enqueued[j]) =>
              \E k \in 1 .. Len(handed) :
                  /\ handed[k] = enqueued[i]
                  /\ \A l \in 1 .. Len(handed) : handed[l] = enqueued[j] => k < l

W19_OrderedDelivery ==
    /\ Len(handed) = 4
    /\ handed[3].type = "audio_chunk"
    /\ handed[4].data = "generation_done"
    /\ sender_task = "sending"
    /\ sending = handed[4]
    /\ Len(enqueued) > 4

\* C21: a delete returns True exactly when a record with the id was stored
\* for the user; on True the user's other records are kept, content and
\* order; on False no file is written; the files of other users are never
\* changed.  For conversations and for scenarios alike.
C21_DeleteFrame ==
    [][LET old == files[ret'.kind][ret'.user]
           new == files'[ret'.kind][ret'.user]
           others(c) == c.id # ret'.id
       IN  /\ ret'.op = "delete" =>
                 /\ ret'.value = (\E i \in 1 .. Len(old) : old[i].id = ret'.id)
                 /\ ret'.value => new = SelectSeq(old, others)
                 /\ ~ret'.value => wrote' = None /\ files' = files
           /\ \A k \in Kinds, u \in Users :
                 (u # ret'.user \/ k # ret'.kind) => files'[k][u] = files[k][u]
           /\ wrote' # None => wrote' = [kind |-> ret'.kind, user |-> ret'.user]
      ]_vars

W21_DeleteFrame ==
    /\ ret.op = "delete"
    /\ ret.kind = "conversations"
    /\ ret.user = "u1"
    /\ ret.id = "a"
    /\ ret.value = TRUE
    /\ files["conversations"]["u1"] = <<[id |-> "b", body |-> "v2"]>>
    /\ saved["conversations"]["u1"]["a"] = None
    /\ files["conversations"]["u2"] # <<>>
    /\ wrote = [kind |-> "conversations", user |-> "u1"]

\* the result of a call as the argument of the next call: int years and
\* float end_assets, inf included
AsArgument(out) ==
    ListOf([i \in 1 .. Len(out) |->
              Record(Num(Dollars(out[i].year)),
                     IF out[i].end_assets = Infinity THEN PosInf
                     ELSE Num(out[i].end_assets))])

\* C22 (as stated): normalizing the result of a call again returns the same
\* six records, whatever the input of the first call.
CE22_Idempotent ==
    Done => Normalize(AsArgument(ordered), half_up) = ordered

\* the list in another order
Permuted(items, f) == [i \in 1 .. Len(items) |-> items[f[i]]]

\* no two valid in-range records of the list carry the same year
DistinctYears(items) ==
    \A i, j \in ValidAt(items) :
        WrittenYear(items[i]) = WrittenYear(items[j]) => i = j

\* C23: order independence. When the valid in-range records of the list
\* have pairwise distinct years, the list in any other order gives the same
\* result.
C23_OrderIndependent ==
    Done /\ IsList(cashflows) /\ DistinctYears(cashflows.items) =>
        \A f \in Permutations(1 .. Len(cashflows.items)) :
            Normalize(ListOf(Permuted(cashflows.items, f)), half_up) = ordered

W23_OrderIndependent ==
    /\ Done
    /\ IsList(cashflows)
    /\ DistinctYears(cashflows.items)
    /\ Len(cashflows.items) = 3
    /\ Cardinality(ValidAt(cashflows.items)) = 2
    /\ WrittenYear(cashflows.items[1]) > WrittenYear(cashflows.items[3])
    /\ WrittenYear(cashflows.items[3]) > 0
    /\ ordered[1].end_assets # ordered[3].end_assets
    /\ ordered[1].end_assets > 0

\* C24: checkpoint passthrough. When a checkpoint year y has a valid record
\* and no dense annual value of a year before y is 0, the result at y is the
\* clamped value of the last valid record for y, rounded to 2 decimals,
\* whatever else the list holds.
C24_CheckpointPassthrough ==
    Done /\ IsList(cashflows) =>
        \A i \in 1 .. Len(ordered) :
            LET y == ordered[i].year
            IN  (/\ \E j \in ValidAt(cashflows.items) :
                        WrittenYear(cashflows.items[j]) = y
                 /\ \A k \in DOMAIN annual : k < y => annual[k].n > 0) =>
                    ordered[i].end_assets =
                        Round2(WrittenValue(cashflows.items[LastAt(cashflows.items, y)]),
                               half_up)

W24_CheckpointPassthrough ==
    /\ Done
    /\ IsList(cashflows)
    /\ Len(cashflows.items) = 3
    /\ ValidAt(cashflows.items) = {1, 2, 3}
    /\ WrittenYear(cashflows.items[1]) = 10
    /\ WrittenYear(cashflows.items[2]) = 10
    /\ WrittenValue(cashflows.items[1]).n > WrittenValue(cashflows.items[2]).n
    /\ WrittenValue(cashflows.items[2]).n > 0
    /\ WrittenYear(cashflows.items[3]) = 3
    /\ WrittenValue(cashflows.items[3]).n > WrittenValue(cashflows.items[2]).n
    /\ ordered[3].end_assets = WrittenValue(cashflows.items[2]).n
    /\ ordered[2].end_assets > ordered[3].end_assets
    /\ ordered[1].end_assets = WrittenValue(cashflows.items[3]).n

\* the clamped values of the valid records, each rounded to 2 decimals
KnownAmounts(items, up) ==
    {Round2(WrittenValue(items[i]), up) : i \in ValidAt(items)}

\* C25: no overshoot. When the list holds a valid record, every end_assets
\* of the result is 0 or lies between the smallest and the largest clamped
\* value of the valid records (rounded to 2 decimals): interpolation, the
\* year 0 anchor and the forward extension stay within the known values.
C25_NoOvershoot ==
    (Done /\ IsList(cashflows) /\ ValidAt(cashflows.items) # {}) =>
        \A i \in 1 .. Len(ordered) :
            \/ ordered[i].end_assets = 0
            \/ /\ MinOf(KnownAmounts(cashflows.items, half_up)) <= ordered[i].end_assets
               /\ ordered[i].end_assets <= MaxOf(KnownAmounts(cashflows.items, half_up))

W25_NoOvershoot ==
    /\ Done
    /\ IsList(cashflows)
    /\ Len(cashflows.items) = 2
    /\ ValidAt(cashflows.items) = {1, 2}
    /\ WrittenYear(cashflows.items[1]) = 3
    /\ WrittenYear(cashflows.items[2]) = 10
    /\ WrittenValue(cashflows.items[1]).n > WrittenValue(cashflows.items[2]).n
    /\ WrittenValue(cashflows.items[2]).n > 0
    /\ ordered[1].end_assets = WrittenValue(cashflows.items[1]).n
    /\ ordered[2].end_assets < ordered[1].end_assets
    /\ ordered[2].end_assets > ordered[3].end_assets
    /\ ordered[6].end_assets = WrittenValue(cashflows.items[2]).n

\* C26 (as stated): the turn_end of a turn reaches the frontend after every
\* audio_chunk, transcript and status message that was enqueued before
\* end_turn was called.
CE26_TurnEndAfterEnqueued ==
    \A i, j \in 1 .. Len(wire) :
        (/\ wire[i].type = "turn_end"
         /\ wire[j].type \in {"audio_chunk", "transcript", "status"}
         /\ wire[j].n <= wire[i].n) => j < i

\* C27 (as stated): at most one send_message call is in progress at any
\* time, the sender task's, end_turn's and the route handler's counted
\* together.
CE27_SingleWriter == ~(sending # None /\ direct # None)

\* C28 (as stated): when the handler has returned, close() was called on
\* every VoiceSessionManager whose start() succeeded: none of them has its
\* sender task running or its Azure connection open.
CE28_NoLeakedSession ==
    handler = "returned" =>
        \A i \in 1 .. Len(managers) :
            managers[i].started =>
                /\ managers[i].closed
                /\ managers[i].sender_task # "running"
                /\ managers[i].azure # "connected"

====
